---- MODULE Spec2Model ----
(***************************************************************************)
(* A model of the AetherAI landing page's globe subsystem.                 *)
(*                                                                         *)
(*   src/src/App.tsx              the capability detector / fallback       *)
(*                                selector of the App component            *)
(*   src/src/components/Earth.tsx the arc builder (DataArcs) and the arc   *)
(*                                tessellation (DataArc)                   *)
(*                                                                         *)
(* Spec      is the App component: mount effects, the 5000 ms timer, the   *)
(*           dynamic import's completion, the scroll and mousemove         *)
(*           listeners and the unmount cleanup.                            *)
(* FairSpec  is Spec with the scheduling the browser guarantees: effects   *)
(*           run after the first commit and a pending timer fires.         *)
(* SceneSpec is the mounted 3D scene: the pair loop of DataArcs' useMemo,  *)
(*           one iteration per step, then the render of each DataArc       *)
(*           child.  Coordinates are fixed-point, in thousandths.          *)
(* FrameSpec is the scene's life after App rendered it: the render of the  *)
(*           whole scene (every useMemo) as one step, then the frame loop  *)
(*           that runs the four useFrame callbacks once per frame.         *)
(***************************************************************************)
EXTENDS Integers, Naturals, Sequences, FiniteSets, TLC

VARIABLES
    phase,          \* "created" (first render done, effects not yet run), "mounted", "unmounted"
    scrolled,       \* useState(false), App.tsx:68
    mousePosition,  \* useState({x: 0, y: 0}), App.tsx:69
    useFallback,    \* useState(false), App.tsx:70
    earthError,     \* useState(false), App.tsx:71
    EarthComponent, \* useState(null), App.tsx:113; TRUE when it holds module.default
    gl,             \* outcome of the canvas.getContext probe, App.tsx:86-94
    timer,          \* the setTimeout handle of App.tsx:97: "unset", "pending", "fired", "cleared"
    importState,    \* the promise of import('./components/Earth.tsx'), App.tsx:116
    importStarts,   \* how many times the import was started
    sceneMounts,    \* how many times <EarthComponent /> was mounted by a render
    staleSets,      \* state setters called after the unmount cleanup ran
    log,            \* the order of the capability detector's events
    scenePc,        \* "idle", "arcs" (in the pair loop), "children" (rendering DataArc), "running"
    arcI,           \* the loop variable i of Earth.tsx:138
    arcJ,           \* the loop variable j of Earth.tsx:139
    arcData,        \* the array arcData of Earth.tsx:136
    lastDraw,       \* the cell of the latest Math.random() value, -1 before the first call
    randomCalls,    \* how many times Math.random() was called by the pair loop
    lines,          \* the DataArc children rendered so far: curve and polyline
    geometry,       \* the particle field of EarthParticles' useMemo: position and color per point
    markers,        \* the positions of CityNodes' useMemo
    memoRuns,       \* how many times the useMemo callbacks of EarthParticles and DataArcs ran
    pointsRotationY,\* pointsRef.current.rotation.y, in units of 0.0005 rad
    arcsRotationY,  \* arcsRef.current.rotation.y, in units of 0.0005 rad
    nodesRotationY, \* nodesRef.current.rotation.y, in units of 0.0005 rad
    uTime,          \* material.uniforms.uTime.value
    elapsedTime,    \* state.clock.elapsedTime, in clock ticks
    frames          \* how many frames have completed

appVars == <<phase, scrolled, mousePosition, useFallback, earthError, EarthComponent,
             gl, timer, importState, importStarts, sceneMounts, staleSets, log>>

sceneVars == <<scenePc, arcI, arcJ, arcData, lastDraw, randomCalls, lines>>

frameVars == <<geometry, markers, memoRuns, pointsRotationY, arcsRotationY, nodesRotationY,
               uTime, elapsedTime, frames>>

vars == <<appVars, sceneVars, frameVars>>

\* ---------------------------------------------------------------- bounds

\* Pointer coordinates delivered by mousemove events range over 0..MaxCoord.
MaxCoord == 1

\* window.scrollY > 50, App.tsx:75
ScrollThreshold == 50

\* window.scrollY values delivered to the scroll listener.
ScrollOffsets == {0, ScrollThreshold, ScrollThreshold + 1}

\* Outcomes of canvas.getContext('webgl') || canvas.getContext('experimental-webgl').
ProbeOutcomes == {"context", "null", "throws"}

\* ---------------------------------------------------------------- App render

\* The conditional of App's JSX: fallback, else the scene, else the placeholder.
RenderModeOf(fallback, error, component) ==
    IF fallback \/ error THEN "StaticFallback"
    ELSE IF component THEN "Realtime3D"
    ELSE "Loading"

RenderMode == RenderModeOf(useFallback, earthError, EarthComponent)

\* A render that newly shows <EarthComponent /> mounts the scene.
SceneMountsAfter(fallback, error, component) ==
    IF /\ RenderModeOf(fallback, error, component) = "Realtime3D"
       /\ RenderMode # "Realtime3D"
    THEN sceneMounts + 1
    ELSE sceneMounts

\* ---------------------------------------------------------------- App state machine

\* The frame loop's state before the scene is rendered: nothing is generated,
\* every rotation is 0 and the shader's uTime uniform is 0.
FrameIdle ==
    /\ geometry = <<>>
    /\ markers = <<>>
    /\ memoRuns = [particles |-> 0, arcs |-> 0]
    /\ pointsRotationY = 0
    /\ arcsRotationY = 0
    /\ nodesRotationY = 0
    /\ uTime = 0
    /\ elapsedTime = 0
    /\ frames = 0

\* The scene's state while no scene is being built.
SceneIdle ==
    /\ scenePc = "idle"
    /\ arcI = 0
    /\ arcJ = 1
    /\ arcData = <<>>
    /\ lastDraw = -1
    /\ randomCalls = 0
    /\ lines = <<>>

Init ==
    /\ phase = "created"
    /\ scrolled = FALSE
    /\ mousePosition = [x |-> 0, y |-> 0]
    /\ useFallback = FALSE
    /\ earthError = FALSE
    /\ EarthComponent = FALSE
    /\ gl = "unprobed"
    /\ timer = "unset"
    /\ importState = "unset"
    /\ importStarts = 0
    /\ sceneMounts = 0
    /\ staleSets = 0
    /\ log = <<>>
    /\ SceneIdle
    /\ FrameIdle

\* As ProbeFallback with an empty catch block: a throwing probe is swallowed.
ProbeFallbackNullOnly(outcome) ==
    outcome = "null"

\* try { ... if (!gl) setUseFallback(true) } catch { setUseFallback(true) }
ProbeFallback(outcome) ==
    outcome \in {"null", "throws"}

\* As Mount without the setTimeout call.
MountWithoutTimer ==
    /\ phase = "created"
    /\ \E outcome \in ProbeOutcomes :
          /\ gl' = outcome
          /\ useFallback' = (useFallback \/ outcome \in {"null", "throws"})
    /\ timer' = "unset"
    /\ importState' = "pending"
    /\ importStarts' = importStarts + 1
    /\ phase' = "mounted"
    /\ sceneMounts' = SceneMountsAfter(useFallback', earthError, EarthComponent)
    /\ log' = Append(log, "mount")
    /\ UNCHANGED <<scrolled, mousePosition, earthError, EarthComponent, staleSets>>
    /\ UNCHANGED <<sceneVars, frameVars>>

\* Both mount effects run in the commit that follows the first render: the probe,
\* setTimeout, addEventListener, then the dynamic import is started.
Mount ==
    /\ phase = "created"
    /\ \E outcome \in ProbeOutcomes :
          /\ gl' = outcome
          /\ useFallback' = (useFallback \/ ProbeFallback(outcome))
    /\ timer' = "pending"
    /\ importState' = "pending"
    /\ importStarts' = importStarts + 1
    /\ phase' = "mounted"
    /\ sceneMounts' = SceneMountsAfter(useFallback', earthError, EarthComponent)
    /\ log' = Append(log, "mount")
    /\ UNCHANGED <<scrolled, mousePosition, earthError, EarthComponent, staleSets>>
    /\ UNCHANGED <<sceneVars, frameVars>>

\* As TimerFire with the callback guarded by `if (!EarthComponent)`: a timer that
\* leaves a loaded scene alone.
TimerFireUnlessLoaded ==
    /\ timer = "pending"
    /\ timer' = "fired"
    /\ IF phase = "mounted" /\ ~EarthComponent
       THEN /\ earthError' = TRUE
            /\ useFallback' = TRUE
            /\ UNCHANGED staleSets
       ELSE /\ staleSets' = IF phase = "mounted" THEN staleSets ELSE staleSets + 2
            /\ UNCHANGED <<earthError, useFallback>>
    /\ sceneMounts' = SceneMountsAfter(useFallback', earthError', EarthComponent)
    /\ log' = Append(log, "timer")
    /\ UNCHANGED <<phase, scrolled, mousePosition, EarthComponent, gl, importState,
                   importStarts>>
    /\ UNCHANGED <<sceneVars, frameVars>>

\* setTimeout(() => { setEarthError(true); setUseFallback(true) }, 5000)
\* A cleared timer never runs its callback; a pending one runs it whatever the
\* component's state is.
TimerFire ==
    /\ timer = "pending"
    /\ timer' = "fired"
    /\ IF phase = "mounted"
       THEN /\ earthError' = TRUE
            /\ useFallback' = TRUE
            /\ UNCHANGED staleSets
       ELSE /\ staleSets' = staleSets + 2
            /\ UNCHANGED <<earthError, useFallback>>
    /\ sceneMounts' = SceneMountsAfter(useFallback', earthError', EarthComponent)
    /\ log' = Append(log, "timer")
    /\ UNCHANGED <<phase, scrolled, mousePosition, EarthComponent, gl, importState,
                   importStarts>>
    /\ UNCHANGED <<sceneVars, frameVars>>

\* As ImportResolve with a success handler that also resets the fallback flags.
ImportResolveOverride ==
    /\ importState = "pending"
    /\ importState' = "fulfilled"
    /\ IF phase = "mounted"
       THEN /\ EarthComponent' = TRUE
            /\ useFallback' = FALSE
            /\ earthError' = FALSE
            /\ UNCHANGED staleSets
       ELSE /\ staleSets' = staleSets + 1
            /\ UNCHANGED <<EarthComponent, useFallback, earthError>>
    /\ sceneMounts' = SceneMountsAfter(useFallback', earthError', EarthComponent')
    /\ log' = Append(log, "resolve")
    /\ UNCHANGED <<phase, scrolled, mousePosition, gl, timer, importStarts>>
    /\ UNCHANGED <<sceneVars, frameVars>>

\* .then(module => { setEarthComponent(() => module.default) })
\* React drops a state update of an unmounted component.
ImportResolve ==
    /\ importState = "pending"
    /\ importState' = "fulfilled"
    /\ IF phase = "mounted"
       THEN /\ EarthComponent' = TRUE
            /\ UNCHANGED staleSets
       ELSE /\ staleSets' = staleSets + 1
            /\ UNCHANGED EarthComponent
    /\ sceneMounts' = SceneMountsAfter(useFallback, earthError, EarthComponent')
    /\ log' = Append(log, "resolve")
    /\ UNCHANGED <<phase, scrolled, mousePosition, useFallback, earthError, gl, timer,
                   importStarts>>
    /\ UNCHANGED <<sceneVars, frameVars>>

\* As ImportReject with an empty catch handler.
ImportRejectSwallowed ==
    /\ importState = "pending"
    /\ importState' = "rejected"
    /\ staleSets' = staleSets
    /\ sceneMounts' = sceneMounts
    /\ log' = Append(log, "reject")
    /\ UNCHANGED <<phase, scrolled, mousePosition, useFallback, earthError, EarthComponent,
                   gl, timer, importStarts>>
    /\ UNCHANGED <<sceneVars, frameVars>>

\* .catch(() => { setUseFallback(true) })
ImportReject ==
    /\ importState = "pending"
    /\ importState' = "rejected"
    /\ IF phase = "mounted"
       THEN /\ useFallback' = TRUE
            /\ UNCHANGED staleSets
       ELSE /\ staleSets' = staleSets + 1
            /\ UNCHANGED useFallback
    /\ sceneMounts' = SceneMountsAfter(useFallback', earthError, EarthComponent)
    /\ log' = Append(log, "reject")
    /\ UNCHANGED <<phase, scrolled, mousePosition, earthError, EarthComponent, gl, timer,
                   importStarts>>
    /\ UNCHANGED <<sceneVars, frameVars>>

\* const handleScroll = () => { setScrolled(window.scrollY > 50) }
handleScroll ==
    /\ phase = "mounted"
    /\ \E scrollY \in ScrollOffsets : scrolled' = (scrollY > ScrollThreshold)
    /\ UNCHANGED <<phase, mousePosition, useFallback, earthError, EarthComponent, gl,
                   timer, importState, importStarts, sceneMounts, staleSets, log>>
    /\ UNCHANGED <<sceneVars, frameVars>>

\* const handleMouseMove = (e) => { setMousePosition({ x: e.clientX, y: e.clientY }) }
handleMouseMove ==
    /\ phase = "mounted"
    /\ \E clientX \in 0..MaxCoord, clientY \in 0..MaxCoord :
          mousePosition' = [x |-> clientX, y |-> clientY]
    /\ UNCHANGED <<phase, scrolled, useFallback, earthError, EarthComponent, gl,
                   timer, importState, importStarts, sceneMounts, staleSets, log>>
    /\ UNCHANGED <<sceneVars, frameVars>>

\* As ClearTimeout in a cleanup that forgets clearTimeout(timer).
ClearTimeoutMissing(t) ==
    t

\* clearTimeout(timer): a pending timer is cancelled, a fired one is left as it is.
ClearTimeout(t) ==
    IF t = "pending" THEN "cleared" ELSE t

\* The cleanup of the first effect: removeEventListener twice, clearTimeout(timer).
Unmount ==
    /\ phase = "mounted"
    /\ phase' = "unmounted"
    /\ timer' = ClearTimeout(timer)
    /\ log' = Append(log, "unmount")
    /\ UNCHANGED <<scrolled, mousePosition, useFallback, earthError, EarthComponent, gl,
                   importState, importStarts, sceneMounts, staleSets>>
    /\ UNCHANGED <<sceneVars, frameVars>>

Next ==
    \/ Mount
    \/ TimerFire
    \/ ImportResolve
    \/ ImportReject
    \/ handleScroll
    \/ handleMouseMove
    \/ Unmount

Spec == Init /\ [][Next]_vars

\* Effects run after the commit and a pending timer's callback is run by the
\* event loop; nothing guarantees that the import ever settles.
FairSpec == Spec /\ WF_vars(Mount) /\ WF_vars(TimerFire)

\* ---------------------------------------------------------------- scene: numbers

\* How many of the eight cities the pair loop runs over.
NumCities == 4

\* Math.random() is drawn from DrawCells equal cells of [0,1); cell k stands for
\* its midpoint (2k+1)/(2*DrawCells).
DrawScale == 1

DrawCells == 10 * DrawScale

\* Math.random() > 0.6, in tenths.
SkipThresholdTenths == 6

\* The projection radius 2.1 of the arc endpoints, in hundredths.
ArcRadiusCenti == 210

\* multiplyScalar(2 + distance * 0.5): the 2, in thousandths.
ControlBaseMilli == 2000

\* curve.getPoints(30)
ArcSegments == 30

\* Math.cos and Math.sin of the eight cities' latitude and longitude (degrees
\* times Math.PI / 180), in thousandths.
CosLat == <<758, 622, 812, 830, 905, 1000, 790, 945>>

SinLat == <<652, 783, 583, -557, 426, 24, 613, 327>>

CosLon == <<276, 1000, -762, -876, 570, -239, -536, 294>>

SinLon == <<-961, -2, 647, 482, 822, 971, -844, 956>>

\* n / d rounded to the nearest integer (d > 0).
Round(n, d) ==
    (2 * n + d) \div (2 * d)

RECURSIVE IsqrtBetween(_, _, _)
\* The largest r in lo..hi with r * r <= n.
IsqrtBetween(n, lo, hi) ==
    IF lo >= hi THEN lo
    ELSE LET m == (lo + hi + 1) \div 2
         IN  IF m * m <= n THEN IsqrtBetween(n, m, hi) ELSE IsqrtBetween(n, lo, m - 1)

\* Math.sqrt on thousandths squared.
Isqrt(n) ==
    IsqrtBetween(n, 0, 46340)

\* ---------------------------------------------------------------- scene: DataArcs

\* x = r cos(lat) cos(lon), y = r sin(lat), z = r cos(lat) sin(lon) for city i
\* (0-based), r in hundredths, the result in thousandths.
Project(i, radiusCenti) ==
    <<Round(radiusCenti * CosLat[i + 1] * CosLon[i + 1], 100000),
      Round(radiusCenti * SinLat[i + 1], 100),
      Round(radiusCenti * CosLat[i + 1] * SinLon[i + 1], 100000)>>

\* Math.random() > tenths/10 for a draw in cell k.
RandomAbove(k, tenths) ==
    (2 * k + 1) * 10 > tenths * 2 * DrawCells

\* As KeepPair with the comparison the other way round: `if (Math.random() < 0.6) continue`.
KeepPairBelowSkips(k) ==
    RandomAbove(k, SkipThresholdTenths)

\* if (Math.random() > 0.6) continue: the pair is kept unless the draw is above 0.6.
KeepPair(k) ==
    ~RandomAbove(k, SkipThresholdTenths)

\* The state the scene is in when <EarthComponent /> has just been rendered: the
\* App is mounted with a context and the module loaded, DataArcs' useMemo starts.
SceneInit ==
    /\ phase = "mounted"
    /\ scrolled = FALSE
    /\ mousePosition = [x |-> 0, y |-> 0]
    /\ useFallback = FALSE
    /\ earthError = FALSE
    /\ EarthComponent = TRUE
    /\ gl = "context"
    /\ timer = "pending"
    /\ importState = "fulfilled"
    /\ importStarts = 1
    /\ sceneMounts = 1
    /\ staleSets = 0
    /\ log = <<"mount", "resolve">>
    /\ scenePc = IF NumCities >= 2 THEN "arcs" ELSE "children"
    /\ arcI = 0
    /\ arcJ = 1
    /\ arcData = <<>>
    /\ lastDraw = -1
    /\ randomCalls = 0
    /\ lines = <<>>
    /\ FrameIdle

\* One iteration of the inner loop: the draw, the continue or the push, and the
\* loop increments up to the next iteration or the loops' end.
ArcLoopStep ==
    /\ scenePc = "arcs"
    /\ \E u \in 0..(DrawCells - 1) :
          /\ lastDraw' = u
          /\ arcData' = IF KeepPair(u)
                        THEN Append(arcData, [start |-> Project(arcI, ArcRadiusCenti),
                                              end   |-> Project(arcJ, ArcRadiusCenti)])
                        ELSE arcData
    /\ randomCalls' = randomCalls + 1
    /\ IF arcJ + 1 < NumCities
       THEN /\ arcI' = arcI
            /\ arcJ' = arcJ + 1
       ELSE /\ arcI' = arcI + 1
            /\ arcJ' = arcI + 2
    /\ scenePc' = IF arcJ' < NumCities THEN "arcs" ELSE "children"
    /\ UNCHANGED lines
    /\ UNCHANGED <<appVars, frameVars>>

\* ---------------------------------------------------------------- scene: DataArc

Add(a, b) == <<a[1] + b[1], a[2] + b[2], a[3] + b[3]>>

\* Vector3.multiplyScalar by num/den.
MultiplyScalar(a, num, den) ==
    <<Round(a[1] * num, den), Round(a[2] * num, den), Round(a[3] * num, den)>>

\* Vector3.length
Length(a) ==
    Isqrt(a[1] * a[1] + a[2] * a[2] + a[3] * a[3])

\* Vector3.distanceTo
DistanceTo(a, b) ==
    Length(<<a[1] - b[1], a[2] - b[2], a[3] - b[3]>>)

\* Vector3.normalize: divideScalar(length() || 1); the length is taken in
\* ten-thousandths and the unit vector is in ten-thousandths.
Normalize(a) ==
    LET len == Isqrt(100 * (a[1] * a[1] + a[2] * a[2] + a[3] * a[3]))
    IN  MultiplyScalar(a, 100000, IF len = 0 THEN 1 ELSE len)

\* As ControlPoint with the lift added to the endpoints' radius 2.1 instead of 2.
ControlPointAtArcRadius(start, end) ==
    LET mid      == MultiplyScalar(Add(start, end), 1, 2)
        distance == DistanceTo(start, end)
    IN  MultiplyScalar(Normalize(mid), 10 * ArcRadiusCenti + distance \div 2, 10000)

\* The control point of DataArc's curve.
ControlPoint(start, end) ==
    LET mid      == MultiplyScalar(Add(start, end), 1, 2)
        distance == DistanceTo(start, end)
    IN  MultiplyScalar(Normalize(mid), ControlBaseMilli + distance \div 2, 10000)

\* QuadraticBezierCurve3.getPoint(d / divisions):
\* (1-t)^2 p0 + 2 (1-t) t p1 + t^2 p2 with t = d / divisions.
GetPoint(p0, p1, p2, d, divisions) ==
    LET w0 == (divisions - d) * (divisions - d)
        w1 == 2 * (divisions - d) * d
        w2 == d * d
        n2 == divisions * divisions
    IN  <<Round(w0 * p0[1] + w1 * p1[1] + w2 * p2[1], n2),
          Round(w0 * p0[2] + w1 * p1[2] + w2 * p2[2], n2),
          Round(w0 * p0[3] + w1 * p1[3] + w2 * p2[3], n2)>>

\* As GetPoints with the loop `for (d = 0; d < divisions; d++)`.
GetPointsExclusive(p0, p1, p2, divisions) ==
    [k \in 1..divisions |-> GetPoint(p0, p1, p2, k - 1, divisions)]

\* Curve.getPoints(divisions): for (d = 0; d <= divisions; d++) push getPoint(d / divisions).
GetPoints(p0, p1, p2, divisions) ==
    [k \in 1..(divisions + 1) |-> GetPoint(p0, p1, p2, k - 1, divisions)]

\* The two useMemo values of one DataArc: the curve and its polyline.
DataArc(start, end) ==
    LET mid == ControlPoint(start, end)
    IN  [start |-> start, mid |-> mid, end |-> end,
         points |-> GetPoints(start, mid, end, ArcSegments)]

\* arcs.map(...): the render of the next DataArc child.
RenderDataArc ==
    /\ scenePc = "children"
    /\ Len(lines) < Len(arcData)
    /\ LET arc == arcData[Len(lines) + 1]
       IN  lines' = Append(lines, DataArc(arc.start, arc.end))
    /\ UNCHANGED <<scenePc, arcI, arcJ, arcData, lastDraw, randomCalls>>
    /\ UNCHANGED <<appVars, frameVars>>

\* Every child is rendered: the scene is committed and its frame loop may run.
SceneCommit ==
    /\ scenePc = "children"
    /\ Len(lines) = Len(arcData)
    /\ scenePc' = "running"
    /\ UNCHANGED <<arcI, arcJ, arcData, lastDraw, randomCalls, lines>>
    /\ UNCHANGED <<appVars, frameVars>>

SceneNext ==
    \/ ArcLoopStep
    \/ RenderDataArc
    \/ SceneCommit

SceneSpec == SceneInit /\ [][SceneNext]_vars

\* ---------------------------------------------------------------- scene: whole render

\* How many of the 8000 particles are generated.
ParticleCount == 1

\* How many frames the frame loop runs.
MaxFrames == 2

\* The frame loop is followed on the scene of the first FrameCities cities.
FrameCities == NumCities - 1

\* Values of Math.random() in the particle loop, in quarters: 0.25 and 0.75.
RandomQuarters == {1, 3}

\* How far state.clock.elapsedTime advances between two frames, in clock ticks.
ClockTicks == {1, 2}

\* const radius = 2 + Math.random() * 0.1, in thousandths
ParticleRadiusMilli == 2000

ParticleJitterMilli == 100

\* const brightness = 0.3 + Math.random() * 0.7, in thousandths
BrightnessBaseMilli == 300

BrightnessSpanMilli == 700

\* The radius 2.15 of the city markers, in hundredths.
NodeRadiusCenti == 215

\* rotation.y += 0.001, += 0.0005, += 0.001, in units of 0.0005 rad
PointsRotationStep == 2

ArcsRotationStep == 1

NodesRotationStep == 2

\* One iteration of EarthParticles' loop, for the four Math.random() values q/4
\* it draws: theta = u * 2 PI, phi = acos(2u - 1), radius, brightness.
ParticlePoint(draw) ==
    LET cosTheta == <<1000, 0, -1000, 0>>[draw.theta + 1]
        sinTheta == <<0, 1000, 0, -1000>>[draw.theta + 1]
        cosPhi   == 2 * (250 * draw.phi) - 1000
        sinPhi   == Isqrt(1000000 - cosPhi * cosPhi)
        radius   == ParticleRadiusMilli + (draw.radius * ParticleJitterMilli) \div 4
        bright   == BrightnessBaseMilli + (draw.brightness * BrightnessSpanMilli) \div 4
    IN  [position |-> <<Round(Round(radius * sinPhi, 1000) * cosTheta, 1000),
                        Round(Round(radius * sinPhi, 1000) * sinTheta, 1000),
                        Round(radius * cosPhi, 1000)>>,
         color    |-> <<bright, bright, bright>>]

\* The four draws of one particle.
ParticleDraws ==
    [theta : RandomQuarters, phi : RandomQuarters, radius : RandomQuarters,
     brightness : RandomQuarters]

RECURSIVE PairsFrom(_, _, _)
\* The pairs (i, j) the two nested loops visit from (i, j) on, in order.
PairsFrom(i, j, n) ==
    IF j >= n
    THEN IF i + 2 >= n THEN <<>> ELSE PairsFrom(i + 1, i + 2, n)
    ELSE <<<<i, j>>>> \o PairsFrom(i, j + 1, n)

RECURSIVE KeptArcs(_, _, _)
\* arcData as the loops leave it when pair number k is kept iff keeps[k].
KeptArcs(pairs, keeps, k) ==
    IF k > Len(pairs) THEN <<>>
    ELSE (IF keeps[k]
          THEN <<[start |-> Project(pairs[k][1], ArcRadiusCenti),
                  end   |-> Project(pairs[k][2], ArcRadiusCenti)]>>
          ELSE <<>>) \o KeptArcs(pairs, keeps, k + 1)

\* What `if (Math.random() > 0.6) continue` can decide for a pair.
KeepOutcomes ==
    {KeepPair(u) : u \in 0..(DrawCells - 1)}

\* App has rendered <EarthComponent />; no component of the scene has rendered yet.
FrameInit ==
    /\ phase = "mounted"
    /\ scrolled = FALSE
    /\ mousePosition = [x |-> 0, y |-> 0]
    /\ useFallback = FALSE
    /\ earthError = FALSE
    /\ EarthComponent = TRUE
    /\ gl = "context"
    /\ timer = "pending"
    /\ importState = "fulfilled"
    /\ importStarts = 1
    /\ sceneMounts = 1
    /\ staleSets = 0
    /\ log = <<"mount", "resolve">>
    /\ SceneIdle
    /\ FrameIdle

\* The first render of <Scene />: the useMemo callbacks of EarthParticles,
\* DataArcs, every DataArc and CityNodes run, with the values Math.random() gives.
SceneRender ==
    /\ scenePc = "idle"
    /\ \E draws \in [1..ParticleCount -> ParticleDraws] :
          geometry' = [n \in 1..ParticleCount |-> ParticlePoint(draws[n])]
    /\ LET pairs == PairsFrom(0, 1, FrameCities)
       IN  /\ \E keeps \in [1..Len(pairs) -> KeepOutcomes] :
                 arcData' = KeptArcs(pairs, keeps, 1)
           /\ randomCalls' = randomCalls + Len(pairs)
    /\ lines' = [n \in 1..Len(arcData') |-> DataArc(arcData'[n].start, arcData'[n].end)]
    /\ markers' = [i \in 1..FrameCities |-> Project(i - 1, NodeRadiusCenti)]
    /\ memoRuns' = [particles |-> memoRuns.particles + 1, arcs |-> memoRuns.arcs + 1]
    /\ scenePc' = "running"
    /\ UNCHANGED <<arcI, arcJ, lastDraw>>
    /\ UNCHANGED <<pointsRotationY, arcsRotationY, nodesRotationY, uTime, elapsedTime, frames>>
    /\ UNCHANGED appVars

\* As Frame with the arc group turning at the markers' rate.
FrameArcsAtMarkerRate ==
    /\ scenePc = "running"
    /\ frames < MaxFrames
    /\ pointsRotationY' = pointsRotationY + PointsRotationStep
    /\ arcsRotationY' = arcsRotationY + NodesRotationStep
    /\ nodesRotationY' = nodesRotationY + NodesRotationStep
    /\ \E dt \in ClockTicks : elapsedTime' = elapsedTime + dt
    /\ uTime' = elapsedTime'
    /\ frames' = frames + 1
    /\ UNCHANGED <<geometry, markers, memoRuns>>
    /\ UNCHANGED <<appVars, sceneVars>>

\* As Frame with the particle field sampled inside the frame callback.
FrameResampling ==
    /\ scenePc = "running"
    /\ frames < MaxFrames
    /\ pointsRotationY' = pointsRotationY + PointsRotationStep
    /\ arcsRotationY' = arcsRotationY + ArcsRotationStep
    /\ nodesRotationY' = nodesRotationY + NodesRotationStep
    /\ \E dt \in ClockTicks : elapsedTime' = elapsedTime + dt
    /\ uTime' = elapsedTime'
    /\ frames' = frames + 1
    /\ \E draws \in [1..ParticleCount -> ParticleDraws] :
          geometry' = [n \in 1..ParticleCount |-> ParticlePoint(draws[n])]
    /\ memoRuns' = [memoRuns EXCEPT !.particles = @ + 1]
    /\ UNCHANGED markers
    /\ UNCHANGED <<appVars, sceneVars>>

\* One rendered frame: the clock advances and the useFrame callbacks of
\* EarthParticles, Atmosphere, DataArcs and CityNodes run, each ref being set.
Frame ==
    /\ scenePc = "running"
    /\ frames < MaxFrames
    /\ pointsRotationY' = pointsRotationY + PointsRotationStep
    /\ arcsRotationY' = arcsRotationY + ArcsRotationStep
    /\ nodesRotationY' = nodesRotationY + NodesRotationStep
    /\ \E dt \in ClockTicks : elapsedTime' = elapsedTime + dt
    /\ uTime' = elapsedTime'
    /\ frames' = frames + 1
    /\ UNCHANGED <<geometry, markers, memoRuns>>
    /\ UNCHANGED <<appVars, sceneVars>>

FrameNext ==
    \/ SceneRender
    \/ Frame

FrameSpec == FrameInit /\ [][FrameNext]_vars

\* ---------------------------------------------------------------- claims C1-C8

\* A failure of the error taxonomy has happened: no rendering context, a failed
\* module load, or the timer running out before the scene module was there.
FailureObserved ==
    \/ gl \in {"null", "throws"}
    \/ importState = "rejected"
    \/ (timer = "fired" /\ ~EarthComponent)

\* C1: once the rendered globe view is the static fallback it stays the static
\* fallback in every later state while mounted, and no later step mounts the 3D
\* scene; a module load that succeeds after the timer changes neither.
C1_FallbackTerminal ==
    [][(phase = "mounted" /\ RenderMode = "StaticFallback" /\ phase' = "mounted")
          => (RenderMode' = "StaticFallback" /\ sceneMounts' = sceneMounts)]_vars

\* The module load succeeded after the timer had forced the fallback.
C1_LateLoadWitness ==
    /\ phase = "mounted"
    /\ gl = "context"
    /\ log = <<"mount", "timer", "resolve">>
    /\ EarthComponent
    /\ RenderMode = "StaticFallback"
    /\ sceneMounts = 0

\* C2: with a rendering context, a module load that succeeds before the timer
\* fires makes the mode Realtime3D, and the mode then stays Realtime3D in every
\* later state while the component is mounted.
C2_FirstResolverWins ==
    [][/\ (phase = "mounted" /\ gl = "context" /\ timer = "pending"
             /\ importState = "pending" /\ importState' = "fulfilled")
          => RenderMode' = "Realtime3D"
       /\ (phase = "mounted" /\ RenderMode = "Realtime3D" /\ phase' = "mounted")
          => RenderMode' = "Realtime3D"]_vars

C4_ProbeFailureFallback ==
    (phase # "created" /\ gl \in {"null", "throws"})
        => (useFallback /\ RenderMode = "StaticFallback" /\ sceneMounts = 0)

\* The probe threw and the module load succeeded afterwards.
C4_ThrowingProbeWitness ==
    /\ phase = "mounted"
    /\ gl = "throws"
    /\ log = <<"mount", "resolve">>
    /\ EarthComponent
    /\ timer = "pending"

\* C5: a failing module load makes the mode StaticFallback at that completion,
\* with the timer still pending or not; it changes no other state of the
\* component, and the import is never started again.
C5_LoadFailureFallback ==
    [][/\ (phase = "mounted" /\ importState = "pending" /\ importState' = "rejected")
          => /\ RenderMode' = "StaticFallback"
             /\ UNCHANGED <<earthError, EarthComponent, timer, phase>>
       /\ importState = "rejected"
          => (importState' = "rejected" /\ importStarts' = importStarts)
       /\ importStarts' <= 1]_vars

\* The load failed while the timer was still pending.
C5_LoadFailureWitness ==
    /\ phase = "mounted"
    /\ gl = "context"
    /\ log = <<"mount", "reject">>
    /\ timer = "pending"
    /\ ~earthError
    /\ RenderMode = "StaticFallback"

\* C6: the only mode changes are Loading -> Realtime3D, Loading -> StaticFallback
\* and Realtime3D -> StaticFallback, and the last happens only on a failure.
C6_MonotoneTransitions ==
    [][\/ RenderMode' = RenderMode
       \/ (RenderMode = "Loading" /\ RenderMode' \in {"Realtime3D", "StaticFallback"})
       \/ (RenderMode = "Realtime3D" /\ RenderMode' = "StaticFallback"
             /\ FailureObserved')]_vars

\* C7: the unmount cleanup cancels a pending timer, and the timer callback
\* never runs once the cleanup has run.
C7_TimerCancelledOnUnmount ==
    [][/\ (phase = "mounted" /\ phase' = "unmounted" /\ timer = "pending")
          => timer' = "cleared"
       /\ phase = "unmounted"
          => (timer' = timer /\ earthError' = earthError /\ useFallback' = useFallback)]_vars

\* The component unmounted with the timer pending, and the event loop went on.
C7_UnmountBeforeTimerWitness ==
    /\ phase = "unmounted"
    /\ log = <<"mount", "unmount", "resolve">>
    /\ timer = "cleared"
    /\ ~earthError

\* C8: with effects and the timer fairly scheduled, a component that stays
\* mounted eventually leaves Loading, even if the module load never settles.
C8_EventuallyRenders ==
    <>(phase = "unmounted" \/ RenderMode # "Loading")

\* The timer ended a Loading phase in which the probe succeeded and the module
\* load had not settled.
C8_TimeoutWitness ==
    /\ phase = "mounted"
    /\ gl = "context"
    /\ log = <<"mount", "timer">>
    /\ importState = "pending"
    /\ RenderMode = "StaticFallback"

\* ---------------------------------------------------------------- claims C9-C10

\* The cells of [0,1) whose draw makes the pair loop push the pair.
KeptCells ==
    {k \in 0..(DrawCells - 1) : KeepPair(k)}

\* How many pairs the loop has finished when its variables are (i, j).
PairsBefore(i, j) ==
    i * (NumCities - 1) - (i * (i - 1)) \div 2 + (j - i - 1)

\* The arc of the pair the loop finished last.
LastPairArc ==
    LET i == IF arcJ - 1 > arcI THEN arcI ELSE arcI - 1
        j == IF arcJ - 1 > arcI THEN arcJ - 1 ELSE NumCities - 1
    IN  [start |-> Project(i, ArcRadiusCenti), end |-> Project(j, ArcRadiusCenti)]

LastPairKept ==
    /\ Len(arcData) > 0
    /\ arcData[Len(arcData)] = LastPairArc

\* The unordered pairs of the eight cities.
AllCityPairs == (Len(CosLat) * (Len(CosLat) - 1)) \div 2

Near(a, b, tol) ==
    a - b <= tol /\ b - a <= tol

\* C10: the polyline of every built arc has exactly 31 points, the point k
\* (k = 0..30) being the quadratic bezier through (start, control, end) at
\* t = k/30; its first point is start and its last point is end.
C10_PolylineShape ==
    /\ Len(lines) <= Len(arcData)
    /\ \A n \in 1..Len(lines) :
          LET l == lines[n]
          IN  /\ l.start = arcData[n].start
              /\ l.end = arcData[n].end
              /\ Len(l.points) = 31
              /\ l.points[1] = l.start
              /\ l.points[31] = l.end
              /\ \A k \in 0..30 : \A c \in 1..3 :
                    Near(900 * l.points[k + 1][c],
                         (30 - k) * (30 - k) * l.start[c] + 2 * (30 - k) * k * l.mid[c]
                            + k * k * l.end[c],
                         450)

\* The scene is committed with at least two arcs built and tessellated.
C10_ArcsRenderedWitness ==
    /\ scenePc = "running"
    /\ Len(lines) >= 2
    /\ Len(lines) = Len(arcData)

\* ---------------------------------------------------------------- claims C11-C15

\* C11: after any number n of completed frames the particle field has turned
\* by 2n, the arc group by n and the marker group by 2n units of 0.0005 rad:
\* the markers' rotation equals the particles', and the arcs' is half of it.
C11_RotationRates ==
    /\ pointsRotationY = 2 * frames
    /\ arcsRotationY = frames
    /\ nodesRotationY = 2 * frames
    /\ nodesRotationY = pointsRotationY
    /\ 2 * arcsRotationY = pointsRotationY

\* Two frames have completed on a rendered scene.
C11_TwoFramesWitness ==
    /\ scenePc = "running"
    /\ frames = 2
    /\ pointsRotationY = 4
    /\ arcsRotationY = 2

\* C12: the particle field and the arcs are generated once, by the render that
\* mounts the scene, and a frame changes nothing but the three rotations and
\* the shader's time uniform (with the clock it is read from): not the sampled
\* points, the selected pairs, the polylines or the markers.
C12_GeneratedOnceFramesLeaveGeometry ==
    [][/\ memoRuns'.particles <= 1
       /\ memoRuns'.arcs <= 1
       /\ scenePc = "running"
             => /\ UNCHANGED <<geometry, arcData, lines, markers, memoRuns, scenePc>>
                /\ UNCHANGED <<arcI, arcJ, lastDraw, randomCalls>>
                /\ UNCHANGED appVars]_vars

\* Frames have run on a scene that holds particles, arcs and their polylines.
C12_FramesOnBuiltSceneWitness ==
    /\ scenePc = "running"
    /\ frames = 2
    /\ memoRuns = [particles |-> 1, arcs |-> 1]
    /\ Len(geometry) >= 1
    /\ Len(arcData) >= 2
    /\ Len(lines) = Len(arcData)

\* The marker m and the arc endpoint e lie on one ray from the origin: m / 2.15
\* and e / 2.1 agree, up to the rounding of thousandths.
RadiallyAligned(m, e) ==
    \A c \in 1..3 : Near(210 * m[c], 215 * e[c], 215)

\* Some city's marker is radially aligned with the endpoint e.
HasAlignedMarker(e) ==
    \E i \in 1..Len(markers) :
        /\ e = Project(i - 1, ArcRadiusCenti)
        /\ RadiallyAligned(markers[i], e)

\* C13: in every state of the mounted scene each arc endpoint lies on the ray
\* of its city's marker: the two are projected on one axis, and the marker
\* group and the arc group have the same rotation.
C13_MarkersAlignedWithArcEnds ==
    scenePc = "running"
        => /\ \A n \in 1..Len(arcData) :
                 HasAlignedMarker(arcData[n].start) /\ HasAlignedMarker(arcData[n].end)
           /\ nodesRotationY = arcsRotationY

\* The chord of a rendered arc and its control point's distance from the origin.
Chord(l) == DistanceTo(l.start, l.end)

ControlDistance(l) == Length(l.mid)

\* The control point of l lies on the ray of the midpoint of start and end.
ControlOnMidpointRay(l) ==
    LET sum     == Add(l.start, l.end)
        sumLen  == Length(sum)
        control == ControlDistance(l)
    IN  \A c \in 1..3 :
           Near(l.mid[c] * sumLen, sum[c] * control, 10 * sumLen + 10000)

\* The DataArc children are rendered one after the other, so every built arc
\* is, in some reachable state, the one rendered last: what holds of the last
\* rendered arc in every reachable state holds of every built arc.
LastLine == lines[Len(lines)]

\* A chord longer by more than the rounding of thousandths gives a strictly
\* farther control point, and a longer chord never a nearer one.
LongerChordFarther(chordK, controlK, chordN, controlN) ==
    /\ chordK + 8 < chordN => controlK < controlN
    /\ chordK < chordN => controlK <= controlN + 2

\* LongerChordFarther, both ways, between the arc rendered last and every arc.
LastLineOrdered ==
    LET chordN   == Chord(LastLine)
        controlN == ControlDistance(LastLine)
    IN  \A k \in 1..(Len(lines) - 1) :
           LET chordK   == Chord(lines[k])
               controlK == ControlDistance(lines[k])
           IN  /\ LongerChordFarther(chordK, controlK, chordN, controlN)
               /\ LongerChordFarther(chordN, controlN, chordK, controlK)

\* C14: the control point of every built arc is the normalized midpoint scaled
\* to 2.1 + 0.5 d, 2.1 being the endpoints' radius and d the chord; so it is
\* never nearer to the origin than the endpoints, and a longer chord gives a
\* strictly farther control point.
C14_ControlAtEndpointRadius ==
    Len(lines) > 0
        => /\ ControlOnMidpointRay(LastLine)
           /\ Near(ControlDistance(LastLine), 2100 + Chord(LastLine) \div 2, 2)
           /\ ControlDistance(LastLine) >= 2100
           /\ LastLineOrdered

\* C14 as amended: the control point of every built arc is the normalized
\* midpoint scaled to 2 + 0.5 d, the base being 2 and not the endpoints' radius
\* 2.1; every chord between two of the eight cities being longer than 0.2, it
\* is never nearer to the origin than the endpoints, and a longer chord gives
\* a strictly farther control point.
C14_ControlAtBaseTwo ==
    Len(lines) > 0
        => /\ ControlOnMidpointRay(LastLine)
           /\ Near(ControlDistance(LastLine), 2000 + Chord(LastLine) \div 2, 2)
           /\ Chord(LastLine) > 200
           /\ ControlDistance(LastLine) >= 2100
           /\ LastLineOrdered

\* Every pair of the loop's cities was kept and every arc's curve is built.
C14_AllArcsBuiltWitness ==
    /\ scenePc = "running"
    /\ Len(arcData) = (NumCities * (NumCities - 1)) \div 2
    /\ Len(lines) = Len(arcData)

\* C15: no continuation of the capability detector calls a state setter once
\* the unmount cleanup has run.
C15_NoSetterAfterUnmount ==
    staleSets = 0

====
